---- MODULE Spec2Model ----
(***************************************************************************)
(* Model of the market-data cache and the volume-spike alert scanner of    *)
(* src/app.py (DataManager, scan_alerts, alert_scanner, get_alerts).       *)
(*                                                                         *)
(* Time is the index of the UTC minute (floor(ms / 60000)), counted from   *)
(* an arbitrary hour boundary.  Only the times at which the program acts   *)
(* (a scan starts, a kline request is answered) are states of the model.   *)
(***************************************************************************)
EXTENDS Integers, Sequences, FiniteSets, TLC

VARIABLES
    now,                    \* minute index of the latest event
    active_syms,            \* DataManager.active_syms
    alerts,                 \* global alerts (the rolling log)
    last_alert,             \* global last_alert: symbol -> alerted hour
    initial_alert_minute,   \* global initial_alert_minute: symbol -> minute
    scan_pc,                \* position of the alert_scanner thread
    scans,                  \* number of scan cycles started so far
    utc_now,                \* scan_alerts local utc_now
    todo,                   \* symbols the for-loop of scan_alerts has not visited
    sym,                    \* scan_alerts loop variable sym
    klines,                 \* scan_alerts locals <<prev, curr>> (<<>>: none)
    spiked,                 \* history: the spikes recorded, [sym, hour, at]
    skipped,                \* history: symbols this cycle left by "continue"
    appended,               \* history: number of alerts.append calls so far
    reader_pc,              \* position of a request thread in get_alerts
    alert_limit,            \* get_alerts local alert_limit
    alerts_to_show,         \* get_alerts local alerts_to_show
    aliased,                \* alerts_to_show is the list object alerts names
    response,               \* the events of the last /api/alerts response
    cached_data,            \* DataManager.cached_data
    cached_pro_data,        \* DataManager.cached_pro_data
    last_update,            \* DataManager.last_update
    swap_time,              \* history: when each slot was last replaced
    trading,                \* the exchange: symbols with status TRADING
    cache_lock,             \* DataManager.cache_lock: the thread holding it
    is_fetching,            \* DataManager.is_fetching
    clock,                  \* datetime.now() as a logical time
    fetches,                \* operations so far that went to the exchange
    th,                     \* per thread: position, arguments and locals
    fb_pc,                  \* fetch_with_fallback: position of the call
    fb_urls,                \* fetch_with_fallback: number of urls
    fb_i,                   \* fetch_with_fallback: mirror the loop is at
    fb_log,                 \* history: mirrors requested and their answers
    fb_return,              \* fetch_with_fallback: the value returned
    fb_sent,                \* history: requests sent to each mirror reached
    fb_last,                \* the answer the adapter is retrying after
    users_with_alerts,      \* scan_alerts: users the for-loop of line 745 has left
    user,                   \* scan_alerts: loop variable, read by the closures
    alert_data,             \* scan_alerts: local variable, read by the closures
    senders,                \* threads started at line 789 that have not run yet
    sent                    \* history: the latest send_alert_email call

scan_vars == <<now, active_syms, alerts, last_alert, initial_alert_minute,
               scan_pc, scans, utc_now, todo, sym, klines, spiked, skipped,
               appended>>

reader_vars == <<reader_pc, alert_limit, alerts_to_show, aliased, response>>

\* what the alert scanner never touches
not_scanner == <<reader_pc, alert_limit, response>>

cache_vars == <<cached_data, cached_pro_data, last_update, swap_time,
                trading, cache_lock, is_fetching, clock, fetches, th>>

fallback_vars == <<fb_pc, fb_urls, fb_i, fb_log, fb_return, fb_sent, fb_last>>

mail_vars == <<users_with_alerts, user, alert_data, senders, sent>>

\* what the DataManager never touches
not_cache == <<now, alerts, last_alert, initial_alert_minute, scan_pc, scans,
               utc_now, todo, sym, klines, spiked, skipped, appended,
               reader_vars,
               fallback_vars, mail_vars>>

vars == <<scan_vars, reader_vars, cache_vars, fallback_vars, mail_vars>>

----------------------------------------------------------------------------
(* Bounds of the model *)

MaxHour == 1

MaxScans == 2

\* alerts.append calls in the specification of the rolling log
MaxAppends == 35

\* operations of the cache threads that go to the exchange (refresh passes
\* that got past the is_fetching test, cold-start reads, watchlist requests)
MaxFetches == 3

\* the cache loop, a request thread, and a thread get_data spawns
CacheThreads == {"loop", "req", "lazy"}

\* answers of the 24h ticker endpoint: (symbol, quoteVolume) in its order
TickerResponses ==
    { << <<"AUSDT", 150000000>>, <<"BUSDT", 200000000>> >> }

\* mirrors in the url list of a fetch_with_fallback call
MaxMirrors == 4

\* what a mirror does with a request: a status code, no answer in time, or
\* a connection error
MirrorAnswers == {"200", "451", "500", "timeout", "error"}

\* no request of the current session.get has been answered yet
NoAnswer == "none"

\* the users the query of lines 737-741 returns (email alerts enabled,
\* active, email confirmed), each named by its tier
Users == <<"free", "pro", "elite">>

\* config.has_feature(user.tier, 'email_alerts')
HasEmailAlerts(u) == u \in {"pro", "elite"}

\* user, alert_data are unbound; no send_alert_email call was made
NoUser == "none"

NoData == [sym |-> "none"]

NoDelivery == [to |-> NoUser]

\* a candle field that float() cannot parse
BadVolume == -1

\* fetch_with_fallback returned None
NoResponse == 0

\* items of a ticker answer in the specification of single requests
MaxItems == 2

Symbols == {"AUSDT", "BUSDT"}

\* minutes of the hour at which the model lets the program act
MinuteGrid == {0, 20, 21, 30, 55}

TimeGrid == {h * 60 + m : h \in 0..MaxHour, m \in MinuteGrid}

\* quote volumes of three consecutive hourly candles, oldest first: a
\* top-of-hour scan compares the first two (the closed ones), any other scan
\* the last two
KlineVolumes ==
    { <<1000000, 3000000, 9000000>>,    \* ratio 3.00 and volume 3,000,000: a spike
      <<300000, 900000, 2999999>>,      \* ratio >= 3, volume below MIN_QUOTE_VOL
      <<1000001, 3000000, 8999999>>,    \* volume enough, ratio just below 3
      <<3000000, 0, 3000000>> }         \* a zero volume, as curr and as prev

----------------------------------------------------------------------------
(* Program constants *)

VOLUME_MULTIPLE == 3

MIN_QUOTE_VOL == 3000000

ALERT_CAP == 30

HALF_UPDATE_MAX_MINUTE == 20

NO_UPDATE_MINUTE == 55

NoHour == -1000

NoMinute == -1

NoSym == "none"

\* config.get_alert_limit: Free (and guests) 10, Pro 30, Elite None
FREE_ALERT_LIMIT == 10

PRO_ALERT_LIMIT == 30

NoLimit == -1

AlertLimits == {FREE_ALERT_LIMIT, PRO_ALERT_LIMIT, NoLimit}

\* float(item.get("quoteVolume", 0)) > 100_000_000
VOLUME_FLOOR == 100000000

NoUpdate == -1

NoThread == "none"

\* a thread that is not inside the DataManager
IdleThread ==
    [pc |-> "idle", pro |-> FALSE, frame |-> "none", outcome |-> "none",
     volume_data |-> <<>>, data |-> <<>>, full |-> FALSE, ret |-> <<>>,
     ret_time |-> NoUpdate]

----------------------------------------------------------------------------
(* Helpers *)

Hour(t) == t \div 60

Minute(t) == t % 60

\* round(a / b) to the nearest integer, a >= 0, b > 0
RoundDiv(a, b) == (2 * a + b) \div (2 * b)

\* a slip: s[:n]
LastN_FirstN(s, n) == IF Len(s) <= n THEN s ELSE SubSeq(s, 1, n)

\* s[-n:]
LastN(s, n) == IF Len(s) <= n THEN s ELSE SubSeq(s, Len(s) - n + 1, Len(s))

\* one hourly candle: k[0] open time, k[6] close time, k[7] quote volume.
\* The close time is open + 1h - 1ms, whose minute index is open + 59.
Candle(h, v) == [open |-> h * 60, close |-> h * 60 + 59, vol |-> v]

\* the answers the klines endpoint can give to a request with this limit
\* answered at minute f: the last n <= limit hourly candles, the newest one
\* being the candle in progress at f
KlineResponses(f, limit, V) ==
    UNION { { [i \in 1..n |-> Candle(Hour(f) - n + i, p[3 - n + i])] : p \in V }
            : n \in 0..limit }

\* a slip: the candles are not filtered by their close time
last_two_closed_klines_Unfiltered(kl, now_ms) ==
    IF Len(kl) >= 2 THEN LastN(kl, 2) ELSE <<>>

\* last_two_closed_klines, given the response kl answered at now_ms
last_two_closed_klines(kl, now_ms) ==
    LET closed == SelectSeq(kl, LAMBDA k : k.close < now_ms)
    IN  IF Len(closed) >= 2 THEN LastN(closed, 2) ELSE <<>>

\* the else branch of scan_alerts: the last two klines as returned
last_two_klines(kl) ==
    IF Len(kl) < 2 THEN <<>> ELSE <<kl[Len(kl) - 1], kl[Len(kl)]>>

\* ratio = curr_vol / prev_vol if prev_vol else 0, in hundredths (floor)
Ratio100(prev_vol, curr_vol) ==
    IF prev_vol # 0 THEN (curr_vol * 100) \div prev_vol ELSE 0

\* f"{ratio:.2f}"
RatioStr(prev_vol, curr_vol) ==
    IF prev_vol # 0 THEN RoundDiv(curr_vol * 100, prev_vol) ELSE 0

\* a slip: the alerted hour compared with the hour of the scan, not of the candle
AlreadyAlerted_ScanHour(s, curr_hour) == last_alert[s] = Hour(utc_now)

\* already_alerted
AlreadyAlerted(s, curr_hour) == last_alert[s] = curr_hour

\* a slip: ratio > VOLUME_MULTIPLE
IsSpike_StrictRatio(ratio100, curr_vol, already_alerted) ==
    /\ ratio100 > VOLUME_MULTIPLE * 100
    /\ curr_vol >= MIN_QUOTE_VOL
    /\ ~already_alerted

\* spike
IsSpike(ratio100, curr_vol, already_alerted) ==
    /\ ratio100 >= VOLUME_MULTIPLE * 100
    /\ curr_vol >= MIN_QUOTE_VOL
    /\ ~already_alerted

\* initial_alert_minute.get(sym, 0)
InitialMin(s) ==
    IF initial_alert_minute[s] = NoMinute THEN 0 ELSE initial_alert_minute[s]

\* a slip: the full update is never suppressed
UpdatePrefix_No55(already_alerted, initial_min, is_middle_hour, top_of_hour) ==
    IF already_alerted
    THEN IF is_middle_hour
         THEN IF initial_min <= HALF_UPDATE_MAX_MINUTE THEN "HALF-UPDATE: " ELSE ""
         ELSE IF top_of_hour THEN "UPDATE: " ELSE ""
    ELSE ""

\* a slip: initial_min < 20
UpdatePrefix_Below20(already_alerted, initial_min, is_middle_hour, top_of_hour) ==
    IF already_alerted
    THEN IF is_middle_hour
         THEN IF initial_min < HALF_UPDATE_MAX_MINUTE THEN "HALF-UPDATE: " ELSE ""
         ELSE IF top_of_hour
              THEN IF initial_min # NO_UPDATE_MINUTE THEN "UPDATE: " ELSE ""
              ELSE ""
    ELSE ""

\* a slip: the half update does not wait for minute 30
UpdatePrefix_AnyMinute(already_alerted, initial_min, is_middle_hour, top_of_hour) ==
    IF already_alerted
    THEN IF ~top_of_hour
         THEN IF initial_min <= HALF_UPDATE_MAX_MINUTE THEN "HALF-UPDATE: " ELSE ""
         ELSE IF initial_min # NO_UPDATE_MINUTE THEN "UPDATE: " ELSE ""
    ELSE ""

\* update_prefix ("" when update_alert stays False)
UpdatePrefix(already_alerted, initial_min, is_middle_hour, top_of_hour) ==
    IF already_alerted
    THEN IF is_middle_hour
         THEN IF initial_min <= HALF_UPDATE_MAX_MINUTE THEN "HALF-UPDATE: " ELSE ""
         ELSE IF top_of_hour
              THEN IF initial_min # NO_UPDATE_MINUTE THEN "UPDATE: " ELSE ""
              ELSE ""
    ELSE ""

\* vol_str
FormatVol(v) ==
    IF v >= 1000000000 THEN <<RoundDiv(v, 10000000), "B">>
    ELSE IF v >= 1000000 THEN <<RoundDiv(v, 10000), "M">>
    ELSE IF v >= 1000 THEN <<RoundDiv(v, 10), "K">>
    ELSE <<v, "">>

\* (utc_now, alert_msg)
AlertEvent(t, prefix, s, prev_vol, curr_vol) ==
    [time |-> t, prefix |-> prefix, sym |-> s,
     vol_str |-> FormatVol(curr_vol), ratio |-> RatioStr(prev_vol, curr_vol)]

----------------------------------------------------------------------------
(* State after the module is loaded *)

InitScanner ==
    /\ now = 0
    /\ active_syms = {}
    /\ alerts = <<>>
    /\ last_alert = [s \in Symbols |-> NoHour]
    /\ initial_alert_minute = [s \in Symbols |-> NoMinute]
    /\ scan_pc = "sleep"
    /\ scans = 0
    /\ utc_now = 0
    /\ todo = {}
    /\ sym = NoSym
    /\ klines = <<>>
    /\ spiked = {}
    /\ skipped = {}
    /\ appended = 0

InitReader ==
    /\ reader_pc = "idle"
    /\ alert_limit = NoLimit
    /\ alerts_to_show = <<>>
    /\ aliased = FALSE
    /\ response = <<>>

\* DataManager.__init__, and no thread inside the DataManager yet
InitCache ==
    /\ cached_data = <<>>
    /\ cached_pro_data = <<>>
    /\ last_update = NoUpdate
    /\ swap_time = [p \in BOOLEAN |-> NoUpdate]
    /\ trading = Symbols
    /\ cache_lock = NoThread
    /\ is_fetching = FALSE
    /\ clock = 0
    /\ fetches = 0
    /\ th = [t \in CacheThreads |-> IdleThread]

InitFallback ==
    /\ fb_pc = "idle"
    /\ fb_urls = 0
    /\ fb_i = 1
    /\ fb_log = <<>>
    /\ fb_return = NoResponse
    /\ fb_sent = <<>>
    /\ fb_last = NoAnswer

InitMail ==
    /\ users_with_alerts = <<>>
    /\ user = NoUser
    /\ alert_data = NoData
    /\ senders = {}
    /\ sent = NoDelivery

Init == InitScanner /\ InitReader /\ InitCache /\ InitFallback /\ InitMail

----------------------------------------------------------------------------
(* DataManager.fetch_data, first statement: the symbol set is fetched as   *)
(* long as it is empty (a failed fetch returns the empty set)              *)

FetchActiveSymbols ==
    /\ active_syms = {}
    /\ \E got \in SUBSET Symbols : active_syms' = got
    /\ active_syms' # {}
    /\ UNCHANGED <<now, alerts, last_alert, initial_alert_minute, scan_pc,
                   scans, utc_now, todo, sym, klines, spiked, skipped,
                   appended>>
    /\ UNCHANGED reader_vars
    /\ UNCHANGED cache_vars
    /\ UNCHANGED <<fallback_vars, mail_vars>>

----------------------------------------------------------------------------
(* alert_scanner / scan_alerts *)

\* alert_scanner wakes up (sleep(60) after the previous cycle, so at a later
\* minute) and scan_alerts reads the clock
ScanStart(T) ==
    /\ scan_pc = "sleep"
    /\ scans < MaxScans
    /\ \E t \in T :
        /\ IF scans = 0 THEN t >= now ELSE t > now
        /\ now' = t
        /\ utc_now' = t
    /\ scans' = scans + 1
    /\ todo' = active_syms
    /\ scan_pc' = "loop"
    /\ UNCHANGED <<active_syms, alerts, last_alert, initial_alert_minute, sym,
                   klines, spiked, appended>>
    /\ skipped' = {}
    /\ UNCHANGED reader_vars
    /\ UNCHANGED cache_vars
    /\ UNCHANGED <<fallback_vars, mail_vars>>

\* a slip: a failed kline fetch ends the cycle
AfterKlines_Abort(got) == IF Len(got) < 2 THEN "sleep" ELSE "eval"

\* lines 663-679: "continue" on fewer than 2 candles and on an exception
AfterKlines(got) == IF Len(got) < 2 THEN "loop" ELSE "eval"

\* a slip: a symbol stays among those to visit
Remaining_Revisits(S, s) == S

\* line 662: the for statement visits each element of active_syms once
Remaining(S, s) == S \ {s}

\* next symbol of the for-loop: the kline request and the choice of prev, curr.
\* The request carries timeout=10, so it is answered in the minute it was
\* issued in or in the next minute of the grid.
KlineFetch(T, V) ==
    /\ scan_pc = "loop"
    /\ todo # {}
    /\ \E s \in todo, f \in T :
        /\ f >= now
        /\ \A g \in T : ~(now < g /\ g < f)
        /\ now' = f
        /\ sym' = s
        /\ todo' = Remaining(todo, s)
        /\ LET top_of_hour == Minute(utc_now) = 0
           IN  \E raised \in BOOLEAN :
               \E kl \in KlineResponses(f, IF top_of_hour THEN 3 ELSE 2, V) :
                   LET got == IF raised THEN <<>>
                              ELSE IF top_of_hour THEN last_two_closed_klines(kl, f)
                              ELSE last_two_klines(kl)
                   IN  /\ klines' = got
                       /\ scan_pc' = AfterKlines(got)
                       /\ skipped' = IF Len(got) < 2 THEN skipped \cup {s}
                                                      ELSE skipped
    /\ UNCHANGED <<active_syms, alerts, last_alert, initial_alert_minute, scans,
                   utc_now, spiked, appended>>
    /\ UNCHANGED reader_vars
    /\ UNCHANGED cache_vars
    /\ UNCHANGED <<fallback_vars, mail_vars>>

\* line 729: alerts.append mutates the list object, which a request thread
\* may hold as alerts_to_show
AppendAlert(event) ==
    /\ alerts' = Append(alerts, event)
    /\ appended' = appended + 1
    /\ alerts_to_show' = IF aliased THEN alerts' ELSE alerts_to_show

\* float(prev[7]), float(curr[7]) of lines 681-682 raise on such a field
Malformed(k) == k.vol = BadVolume

\* lines 681-729: detection, state update and alerts.append; an exception
\* here is outside the try block of the for-loop and leaves scan_alerts
ScanEval ==
    /\ scan_pc = "eval"
    /\ ~(Malformed(klines[1]) \/ Malformed(klines[2]))
    /\ LET prev == klines[1]
           curr == klines[2]
           prev_vol == prev.vol
           curr_vol == curr.vol
           ratio == Ratio100(prev_vol, curr_vol)
           curr_hour == Hour(curr.open)
           top_of_hour == Minute(utc_now) = 0
           is_middle_hour == Minute(utc_now) = 30
           already_alerted == AlreadyAlerted(sym, curr_hour)
           spike == IsSpike(ratio, curr_vol, already_alerted)
           update_prefix == UpdatePrefix(already_alerted, InitialMin(sym),
                                         is_middle_hour, top_of_hour)
           update_alert == update_prefix # ""
       IN  /\ IF spike
              THEN /\ last_alert' = [last_alert EXCEPT ![sym] = curr_hour]
                   /\ initial_alert_minute' =
                          [initial_alert_minute EXCEPT ![sym] = Minute(utc_now)]
                   /\ spiked' = spiked \cup
                          {[sym |-> sym, hour |-> curr_hour, at |-> utc_now]}
              ELSE UNCHANGED <<last_alert, initial_alert_minute, spiked>>
           /\ IF spike \/ update_alert
              THEN /\ AppendAlert(
                          AlertEvent(utc_now, update_prefix, sym, prev_vol, curr_vol))
                   /\ scan_pc' = "trunc"
              ELSE /\ UNCHANGED <<alerts, appended, alerts_to_show>>
                   /\ scan_pc' = "loop"
    /\ klines' = <<>>
    /\ UNCHANGED <<now, active_syms, scans, utc_now, todo, sym, skipped,
                   aliased>>
    /\ UNCHANGED not_scanner
    /\ UNCHANGED cache_vars
    /\ UNCHANGED <<fallback_vars, mail_vars>>

\* lines 681-682 raise: the exception leaves scan_alerts and reaches the
\* except clause of alert_scanner (line 807)
ScanRaise ==
    /\ scan_pc = "eval"
    /\ Malformed(klines[1]) \/ Malformed(klines[2])
    /\ scan_pc' = "except"
    /\ klines' = <<>>
    /\ UNCHANGED <<now, active_syms, alerts, last_alert, initial_alert_minute,
                   scans, utc_now, todo, sym, spiked, skipped, appended>>
    /\ UNCHANGED reader_vars
    /\ UNCHANGED cache_vars
    /\ UNCHANGED <<fallback_vars, mail_vars>>

\* a slip: the exception ends alert_scanner
AfterScanError_Ends == "ended"

\* alert_scanner, lines 807-809: print the error, time.sleep(60), loop
AfterScanError == "sleep"

ScanCaught ==
    /\ scan_pc = "except"
    /\ scan_pc' = AfterScanError
    /\ UNCHANGED <<now, active_syms, alerts, last_alert, initial_alert_minute,
                   scans, utc_now, todo, sym, klines, spiked, skipped,
                   appended>>
    /\ UNCHANGED reader_vars
    /\ UNCHANGED cache_vars
    /\ UNCHANGED <<fallback_vars, mail_vars>>

\* line 730: alerts = alerts[-30:] binds the name to a new list
Truncate(after) ==
    /\ scan_pc = "trunc"
    /\ alerts' = LastN(alerts, ALERT_CAP)
    /\ aliased' = FALSE
    /\ scan_pc' = after
    /\ UNCHANGED <<now, active_syms, last_alert, initial_alert_minute, scans,
                   utc_now, todo, sym, klines, spiked, skipped, appended,
                   alerts_to_show>>
    /\ UNCHANGED not_scanner
    /\ UNCHANGED cache_vars
    /\ UNCHANGED <<fallback_vars, mail_vars>>

\* lines 730-797 where the dispatch block is not looked into: it changes
\* nothing the scanner or the readers see, and the for-loop goes on
ScanTruncate == Truncate("loop")

\* the for-loop is exhausted: scan_alerts returns, alert_scanner sleeps
ScanEnd ==
    /\ scan_pc = "loop"
    /\ todo = {}
    /\ scan_pc' = "sleep"
    /\ sym' = NoSym
    /\ UNCHANGED <<now, active_syms, alerts, last_alert, initial_alert_minute,
                   scans, utc_now, todo, klines, spiked, skipped,
                   appended>>
    /\ UNCHANGED reader_vars
    /\ UNCHANGED cache_vars
    /\ UNCHANGED <<fallback_vars, mail_vars>>

Next ==
    \/ FetchActiveSymbols
    \/ ScanStart(TimeGrid)
    \/ KlineFetch(TimeGrid, KlineVolumes)
    \/ ScanEval
    \/ ScanTruncate
    \/ ScanEnd

Spec == Init /\ [][Next]_vars

----------------------------------------------------------------------------
(* The rolling log: the appends of scan_alerts and the /api/alerts reader. *)
(* The k-th event appended carries the time stamp k.                       *)

\* scan_alerts, in this cycle or in a later one, reaches line 729 (spike or
\* update_alert) for one more symbol
LogAppend ==
    /\ scan_pc \in {"sleep", "loop"}
    /\ appended < MaxAppends
    /\ AppendAlert(AlertEvent(appended + 1, "", "AUSDT", 1000000, 3000000))
    /\ scan_pc' = "trunc"
    /\ UNCHANGED <<now, active_syms, last_alert, initial_alert_minute, scans,
                   utc_now, todo, sym, klines, spiked, skipped, aliased>>
    /\ UNCHANGED not_scanner
    /\ UNCHANGED cache_vars
    /\ UNCHANGED <<fallback_vars, mail_vars>>

\* get_alerts, lines 1229-1239: the tier's limit; alerts_to_show = alerts
GetAlertsStart ==
    /\ reader_pc = "idle"
    /\ \E l \in AlertLimits : alert_limit' = l
    /\ alerts_to_show' = alerts
    /\ aliased' = TRUE
    /\ response' = <<>>
    /\ reader_pc' = "limit"
    /\ UNCHANGED scan_vars
    /\ UNCHANGED cache_vars
    /\ UNCHANGED <<fallback_vars, mail_vars>>

\* get_alerts, lines 1241-1243: alerts_to_show = alerts[-alert_limit:]
GetAlertsLimit ==
    /\ reader_pc = "limit"
    /\ IF alert_limit # NoLimit
       THEN /\ alerts_to_show' = LastN(alerts, alert_limit)
            /\ aliased' = FALSE
       ELSE UNCHANGED <<alerts_to_show, aliased>>
    /\ reader_pc' = "render"
    /\ UNCHANGED <<alert_limit, response>>
    /\ UNCHANGED scan_vars
    /\ UNCHANGED cache_vars
    /\ UNCHANGED <<fallback_vars, mail_vars>>

\* get_alerts, lines 1245-1259: the events are read out of alerts_to_show
GetAlertsReturn ==
    /\ reader_pc = "render"
    /\ response' = alerts_to_show
    /\ aliased' = FALSE
    /\ reader_pc' = "idle"
    /\ UNCHANGED <<alert_limit, alerts_to_show>>
    /\ UNCHANGED scan_vars
    /\ UNCHANGED cache_vars
    /\ UNCHANGED <<fallback_vars, mail_vars>>

NextLog ==
    \/ LogAppend
    \/ ScanTruncate
    \/ GetAlertsStart
    \/ GetAlertsLimit
    \/ GetAlertsReturn

SpecLog == Init /\ [][NextLog]_vars

----------------------------------------------------------------------------
(* DataManager: the cache, its lock and the is_fetching flag.  The cache   *)
(* loop thread calls refresh_cache_background again and again; a request   *)
(* thread serves /api/data (get_cached_data, then the lazy refresh         *)
(* trigger) and /api/watchlist (fetch_data); the lazy thread is the one    *)
(* get_data spawns to run refresh_cache_background.                        *)

Slot(p) == IF p THEN cached_pro_data ELSE cached_data

\* a slip: e goes before the entries of its own volume
InsertDesc_BeforeTies(sorted, e) ==
    LET k == Cardinality({i \in DOMAIN sorted : sorted[i].volume > e.volume})
    IN  SubSeq(sorted, 1, k) \o <<e>> \o SubSeq(sorted, k + 1, Len(sorted))

\* sorted is descending: e goes after every entry of volume >= its own
InsertDesc(sorted, e) ==
    LET k == Cardinality({i \in DOMAIN sorted : sorted[i].volume >= e.volume})
    IN  SubSeq(sorted, 1, k) \o <<e>> \o SubSeq(sorted, k + 1, Len(sorted))

\* processed_data.sort(key=lambda x: x["volume"], reverse=True), a stable sort
RECURSIVE SortDesc(_)
SortDesc(s) ==
    IF s = <<>> THEN <<>>
    ELSE InsertDesc(SortDesc(SubSeq(s, 1, Len(s) - 1)), s[Len(s)])

\* a slip: a volume equal to the floor passes
Process_AtFloor(volume_data, syms, include_pro_metrics) ==
    LET kept == SelectSeq(volume_data,
                    LAMBDA item : item[1] \in syms /\ item[2] >= VOLUME_FLOOR)
    IN  SortDesc([i \in 1..Len(kept) |->
                    [symbol |-> kept[i][1], volume |-> kept[i][2],
                     pro |-> include_pro_metrics]])

\* lines 474-545: filter the ticker items, build the entries, sort them
Process(volume_data, syms, include_pro_metrics) ==
    LET kept == SelectSeq(volume_data,
                    LAMBDA item : item[1] \in syms /\ item[2] > VOLUME_FLOOR)
    IN  SortDesc([i \in 1..Len(kept) |->
                    [symbol |-> kept[i][1], volume |-> kept[i][2],
                     pro |-> include_pro_metrics]])

\* what fetch_active_symbols returns to fetch_data: set() when the exchange
\* cannot be reached, the symbols with status TRADING otherwise
ActiveSymbolResponses == {{}, trading}

\* quote volumes around the floor of line 479
FetchVolumes == {50000000, VOLUME_FLOOR, VOLUME_FLOOR + 1, 200000000}

\* ticker answers of up to MaxItems (symbol, quoteVolume) items, a symbol
\* listed once
WatchlistTickers ==
    {r \in UNION {[1..k -> Symbols \X FetchVolumes] : k \in 0..MaxItems} :
        \A i, j \in DOMAIN r : i # j => r[i][1] # r[j][1]}

\* a slip: a failed mirror fetch falls through to the cache update
AfterTry_FailStores(outcome) ==
    CASE outcome = "ok" -> "f_swap"
      [] outcome = "fail" -> "f_swap"
      [] outcome = "exc" -> "f_except"

\* where the try block of fetch_data goes: to the cache update, to
\* "return []" (a mirror list exhausted), or to the except handler
AfterTry(outcome) ==
    CASE outcome = "ok" -> "f_swap"
      [] outcome = "fail" -> "f_return"
      [] outcome = "exc" -> "f_except"

\* thread t enters fetch_data(include_pro_metrics) from frame fr
EnterFetch(t, p, fr) ==
    [th[t] EXCEPT !.pc = "f_syms", !.pro = p, !.frame = fr, !.outcome = "none",
                  !.volume_data = <<>>, !.data = <<>>,
                  !.full = (Slot(p) # <<>>)]

\* thread t leaves fetch_data with value v, back into its caller:
\* refresh_cache_background (lines 578-579), get_cached_data (line 405, which
\* then leaves its with-block) or the watchlist route (line 1120)
LeaveFetch(t, v, outcome) ==
    CASE th[t].frame = "r_free" -> EnterFetch(t, TRUE, "r_pro")
      [] th[t].frame = "r_pro" ->
            [th[t] EXCEPT !.pc = "r_finally", !.frame = "none", !.pro = FALSE,
                          !.outcome = "none", !.volume_data = <<>>,
                          !.data = <<>>, !.full = FALSE]
      [] th[t].frame = "gcd" ->
            [th[t] EXCEPT !.pc = "idle", !.frame = "none",
                          !.volume_data = <<>>, !.data = <<>>,
                          !.outcome = outcome, !.ret = v, !.ret_time = clock']
      [] th[t].frame = "direct" ->
            [th[t] EXCEPT !.pc = "idle", !.frame = "none",
                          !.volume_data = <<>>, !.data = <<>>,
                          !.outcome = outcome, !.ret = v, !.ret_time = NoUpdate]

LockAfterFetch(t) == IF th[t].frame = "gcd" THEN NoThread ELSE cache_lock

\* refresh_cache_background, line 570: if self.is_fetching: return
RefreshCheck(t) ==
    /\ \/ t = "loop" /\ th[t].pc = "idle"
       \/ t = "lazy" /\ th[t].pc = "spawned"
    /\ fetches < MaxFetches
    /\ IF is_fetching
       THEN /\ th' = [th EXCEPT ![t].pc = "idle"]
            /\ UNCHANGED fetches
       ELSE /\ th' = [th EXCEPT ![t].pc = "r_set"]
            /\ fetches' = fetches + 1
    /\ UNCHANGED <<cached_data, cached_pro_data, last_update, swap_time, trading,
                   cache_lock,                    is_fetching, clock, active_syms>>
    /\ UNCHANGED not_cache

\* line 573: self.is_fetching = True, then the first fetch_data call
RefreshSet(t) ==
    /\ th[t].pc = "r_set"
    /\ is_fetching' = TRUE
    /\ th' = [th EXCEPT ![t] = EnterFetch(t, FALSE, "r_free")]
    /\ UNCHANGED <<cached_data, cached_pro_data, last_update, swap_time, trading,
                   cache_lock,                    clock, fetches, active_syms>>
    /\ UNCHANGED not_cache

\* line 586: finally: self.is_fetching = False
RefreshFinally(t) ==
    /\ th[t].pc = "r_finally"
    /\ is_fetching' = FALSE
    /\ th' = [th EXCEPT ![t].pc = "idle"]
    /\ UNCHANGED <<cached_data, cached_pro_data, last_update, swap_time, trading,
                   cache_lock,                    clock, fetches, active_syms>>
    /\ UNCHANGED not_cache

\* fetch_data, line 415: if not self.active_syms
FetchSyms(t) ==
    /\ th[t].pc = "f_syms"
    /\ th' = [th EXCEPT ![t].pc = IF active_syms = {} THEN "f_syms_net" ELSE "f_try"]
    /\ UNCHANGED <<cached_data, cached_pro_data, last_update, swap_time, trading,
                   cache_lock,                    is_fetching, clock, fetches, active_syms>>
    /\ UNCHANGED not_cache

\* line 416: self.active_syms = self.fetch_active_symbols() (set() on failure)
FetchSymsNet(t) ==
    /\ th[t].pc = "f_syms_net"
    /\ \E got \in ActiveSymbolResponses : active_syms' = got
    /\ th' = [th EXCEPT ![t].pc = "f_try"]
    /\ UNCHANGED <<cached_data, cached_pro_data, last_update, swap_time, trading,
                   cache_lock,                    is_fetching, clock, fetches>>
    /\ UNCHANGED not_cache

\* lines 418-545: the exchange requests and the processing
FetchTry(t, R) ==
    /\ th[t].pc = "f_try"
    /\ \E outcome \in {"ok", "fail", "exc"} : \E volume_data \in R :
        LET processed_data ==
                IF outcome = "ok"
                THEN Process(volume_data, active_syms, th[t].pro) ELSE <<>>
        IN  IF AfterTry(outcome) = "f_return"
            THEN /\ clock' = clock + 1
                 /\ th' = [th EXCEPT ![t] = LeaveFetch(t, <<>>, outcome)]
                 /\ cache_lock' = LockAfterFetch(t)
            ELSE /\ th' = [th EXCEPT ![t].pc = AfterTry(outcome),
                                     ![t].outcome = outcome,
                                     ![t].volume_data =
                                        IF outcome = "ok" THEN volume_data
                                                          ELSE <<>>,
                                     ![t].data = processed_data]
                 /\ UNCHANGED <<clock, cache_lock>>
    /\ UNCHANGED <<cached_data, cached_pro_data, last_update, swap_time, trading,
                   is_fetching,                    fetches, active_syms>>
    /\ UNCHANGED not_cache

\* lines 547-555: with self.cache_lock: swap the slot, stamp last_update
FetchSwap(t) ==
    /\ th[t].pc = "f_swap"
    /\ cache_lock = NoThread
    /\ clock' = clock + 1
    /\ IF th[t].pro
       THEN cached_pro_data' = th[t].data /\ UNCHANGED cached_data
       ELSE cached_data' = th[t].data /\ UNCHANGED cached_pro_data
    /\ last_update' = clock'
    /\ swap_time' = [swap_time EXCEPT ![th[t].pro] = clock']
    /\ UNCHANGED trading
    /\ th' = [th EXCEPT ![t] = LeaveFetch(t, th[t].data, th[t].outcome)]
    /\ cache_lock' = LockAfterFetch(t)
    /\ UNCHANGED <<is_fetching, fetches, active_syms>>
    /\ UNCHANGED not_cache

\* lines 557-566: except: with self.cache_lock: return the cached slot or []
FetchExcept(t) ==
    /\ th[t].pc = "f_except"
    /\ cache_lock = NoThread
    /\ clock' = clock + 1
    /\ th' = [th EXCEPT ![t] = LeaveFetch(t, Slot(th[t].pro), th[t].outcome)]
    /\ cache_lock' = LockAfterFetch(t)
    /\ UNCHANGED <<cached_data, cached_pro_data, last_update, swap_time, trading,
                   is_fetching,                    fetches, active_syms>>
    /\ UNCHANGED not_cache

\* a slip: the cached branch is never taken
CacheHit_Never(include_pro_metrics) == FALSE

\* lines 399-402: the requested slot holds entries
CacheHit(include_pro_metrics) == Slot(include_pro_metrics) # <<>>

\* get_data: get_cached_data (lines 398-405) and, on a cache hit that is
\* older than CACHE_MINUTES, the thread that runs refresh_cache_background
GetCachedData(t, include_pro_metrics) ==
    /\ t = "req"
    /\ th[t].pc = "idle"
    /\ cache_lock = NoThread
    /\ IF CacheHit(include_pro_metrics)
       THEN /\ \E stale \in BOOLEAN :
                th' = [th EXCEPT
                         ![t].ret = Slot(include_pro_metrics),
                         ![t].ret_time = last_update,
                         !["lazy"].pc = IF stale /\ th["lazy"].pc = "idle"
                                        THEN "spawned" ELSE th["lazy"].pc]
            /\ UNCHANGED <<cache_lock, fetches>>
       ELSE /\ fetches < MaxFetches
            /\ fetches' = fetches + 1
            /\ cache_lock' = t
            /\ th' = [th EXCEPT ![t] = EnterFetch(t, include_pro_metrics, "gcd")]
    /\ UNCHANGED <<cached_data, cached_pro_data, last_update, swap_time, trading,
                   is_fetching,                    clock, active_syms>>
    /\ UNCHANGED not_cache

\* get_watchlist, line 1120: data_manager.fetch_data(include_pro_metrics)
Watchlist(t, include_pro_metrics) ==
    /\ t = "req"
    /\ th[t].pc = "idle"
    /\ fetches < MaxFetches
    /\ fetches' = fetches + 1
    /\ th' = [th EXCEPT ![t] = EnterFetch(t, include_pro_metrics, "direct")]
    /\ UNCHANGED <<cached_data, cached_pro_data, last_update, swap_time, trading,
                   cache_lock,                    is_fetching, clock, active_syms>>
    /\ UNCHANGED not_cache

NextCache ==
    \E t \in CacheThreads :
        \/ RefreshCheck(t)
        \/ RefreshSet(t)
        \/ RefreshFinally(t)
        \/ FetchSyms(t)
        \/ FetchSymsNet(t)
        \/ FetchTry(t, TickerResponses)
        \/ FetchSwap(t)
        \/ FetchExcept(t)
        \/ \E p \in BOOLEAN : GetCachedData(t, p)
        \/ \E p \in BOOLEAN : Watchlist(t, p)

SpecCache == Init /\ [][NextCache]_vars

\* refresh_cache_background, lines 582-586: the logging call of the except
\* clause raises; the finally block runs and the exception reaches the
\* except clause of background_cache_refresher (line 617)
RefreshRaise(t) ==
    /\ t = "loop"
    /\ th[t].pc = "r_finally"
    /\ is_fetching' = FALSE
    /\ th' = [th EXCEPT ![t].pc = "l_except"]
    /\ UNCHANGED <<cached_data, cached_pro_data, last_update, swap_time,
                   trading, cache_lock, clock, fetches, active_syms>>
    /\ UNCHANGED not_cache

\* background_cache_refresher, lines 617-619: log the error, time.sleep(60),
\* next iteration of the while loop
LoopCaught(t) ==
    /\ t = "loop"
    /\ th[t].pc = "l_except"
    /\ th' = [th EXCEPT ![t].pc = "idle"]
    /\ UNCHANGED <<cached_data, cached_pro_data, last_update, swap_time,
                   trading, cache_lock, is_fetching, clock, fetches,
                   active_syms>>
    /\ UNCHANGED not_cache

\* passes of the cache loop when it runs next to the alert loop
MaxPasses == 2

\* the two loops are observed together at the top and the middle of an hour
LoopGrid == {0, 30}

\* candle volumes for the two loops: a spike, and a candle that cannot be
\* parsed
LoopVolumes == { <<1000000, 3000000, 9000000>>, <<1000000, BadVolume, 3000000>> }

\* the thread of alert_scanner
ScannerLoop ==
    \/ ScanStart(LoopGrid)
    \/ KlineFetch(LoopGrid, LoopVolumes)
    \/ ScanEval
    \/ ScanRaise
    \/ ScanCaught
    \/ ScanTruncate
    \/ ScanEnd

\* the thread of background_cache_refresher
CacheLoop ==
    \/ fetches < MaxPasses /\ RefreshCheck("loop")
    \/ RefreshSet("loop")
    \/ FetchSyms("loop")
    \/ FetchSymsNet("loop")
    \/ FetchTry("loop", TickerResponses)
    \/ FetchSwap("loop")
    \/ FetchExcept("loop")
    \/ RefreshFinally("loop")
    \/ RefreshRaise("loop")
    \/ LoopCaught("loop")

NextLoops == ScannerLoop \/ CacheLoop

\* an except clause that was entered runs to its end, and time.sleep returns
SpecLoops ==
    /\ Init /\ [][NextLoops]_vars
    /\ WF_vars(ScanCaught) /\ WF_vars(ScanStart(LoopGrid))
    /\ WF_vars(LoopCaught("loop"))
    /\ WF_vars(fetches < MaxPasses /\ RefreshCheck("loop"))

\* the exchange lists or delists symbols while no fetch_data call is running
ExchangeChange ==
    /\ \A t \in CacheThreads : th[t].pc \notin
            {"f_syms", "f_syms_net", "f_try", "f_swap", "f_except"}
    /\ \E S \in (SUBSET Symbols) \ {{}, trading} : trading' = S
    /\ UNCHANGED <<cached_data, cached_pro_data, last_update, swap_time,
                   cache_lock, is_fetching, clock, fetches, th, active_syms>>
    /\ UNCHANGED not_cache

\* watchlist requests, one after the other, against a changing exchange
NextFetch ==
    \/ ExchangeChange
    \/ \E p \in BOOLEAN : Watchlist("req", p)
    \/ FetchSyms("req")
    \/ FetchSymsNet("req")
    \/ FetchTry("req", WatchlistTickers)
    \/ FetchSwap("req")
    \/ FetchExcept("req")

SpecFetch == Init /\ [][NextFetch]_vars

\* thread t has set is_fetching = True and has not yet run its finally block
InGuardedSection(t) ==
    th[t].frame \in {"r_free", "r_pro"} \/ th[t].pc = "r_finally"

\* thread t is inside fetch_data
InFetchData(t) ==
    th[t].pc \in {"f_syms", "f_syms_net", "f_try", "f_swap", "f_except"}

----------------------------------------------------------------------------
(* fetch_with_fallback(session, urls): the loop over the mirrors.  A        *)
(* returned response is named by the position of its mirror in urls.       *)

\* a slip: only the geo-block and the exceptions move on to the next mirror
ReturnsResponse_UnlessBlocked(answer) ==
    answer \notin {"451", "timeout", "error"}

\* line 318: if response.status_code == 200 (an exception of session.get
\* goes to the except branch of line 333)
ReturnsResponse(answer) == answer = "200"

\* Retry(total=2, ...) of create_robust_session
RETRY_TOTAL == 2

\* a slip: the geo-block status is in the retry list as well
Retried_AlsoBlocked(answer) == answer \in {"451", "500", "timeout", "error"}

\* the answers the adapter of create_robust_session retries after: a status
\* of status_forcelist=[429, 500, 502, 503, 504] ("500" stands for them) and
\* the connection-level errors; 451 is not in the list
Retried(answer) == answer \in {"500", "timeout", "error"}

\* requests sent so far to the mirror the loop is at
Tries == IF Len(fb_sent) >= fb_i THEN fb_sent[fb_i] ELSE 0

\* one more request goes to the mirror the loop is at
SendRequest ==
    fb_sent' = IF Len(fb_sent) >= fb_i
               THEN [fb_sent EXCEPT ![fb_i] = @ + 1]
               ELSE Append(fb_sent, 1)

\* inside session.get (line 318): a request is answered by a status of the
\* retry list or fails at connection level while retries are left, and the
\* adapter sends it again after its backoff
FallbackRetry ==
    /\ fb_pc = "loop"
    /\ fb_i <= fb_urls
    /\ Tries < RETRY_TOTAL
    /\ \E answer \in MirrorAnswers :
          /\ Retried(answer)
          /\ fb_last' = answer
    /\ SendRequest
    /\ UNCHANGED <<fb_pc, fb_urls, fb_i, fb_log, fb_return>>
    /\ UNCHANGED <<scan_vars, reader_vars, cache_vars, mail_vars>>

\* a caller passes its list of urls
FallbackCall ==
    /\ fb_pc \in {"idle", "done"}
    /\ \E n \in 1..MaxMirrors : fb_urls' = n
    /\ fb_i' = 1
    /\ fb_log' = <<>>
    /\ fb_return' = NoResponse
    /\ fb_sent' = <<>>
    /\ fb_last' = NoAnswer
    /\ fb_pc' = "loop"
    /\ UNCHANGED <<scan_vars, reader_vars, cache_vars, mail_vars>>

\* lines 316-337: one iteration of the for loop, from the request whose
\* answer session.get hands back (or raises): an answer that is not retried,
\* or any answer once the retries are used up
FallbackTry ==
    /\ fb_pc = "loop"
    /\ fb_i <= fb_urls
    /\ \E answer \in MirrorAnswers :
          /\ ~Retried(answer) \/ Tries = RETRY_TOTAL
          /\ fb_log' = Append(fb_log, [mirror |-> fb_i, answer |-> answer])
          /\ IF ReturnsResponse(answer)
             THEN fb_return' = fb_i /\ fb_pc' = "done" /\ UNCHANGED fb_i
             ELSE fb_i' = fb_i + 1 /\ UNCHANGED <<fb_return, fb_pc>>
    /\ SendRequest
    /\ fb_last' = NoAnswer
    /\ UNCHANGED fb_urls
    /\ UNCHANGED <<scan_vars, reader_vars, cache_vars, mail_vars>>

\* lines 339-341: the list is exhausted, return None
FallbackExhausted ==
    /\ fb_pc = "loop"
    /\ fb_i > fb_urls
    /\ fb_return' = NoResponse
    /\ fb_pc' = "done"
    /\ UNCHANGED <<fb_urls, fb_i, fb_log, fb_sent, fb_last>>
    /\ UNCHANGED <<scan_vars, reader_vars, cache_vars, mail_vars>>

NextFallback ==
    \/ FallbackCall
    \/ FallbackRetry
    \/ FallbackTry
    \/ FallbackExhausted

SpecFallback == Init /\ [][NextFallback]_vars

\* every request carries timeout=15 and every backoff sleep ends, so a call
\* that can take a step takes one
SpecFallbackFair ==
    SpecFallback /\ WF_vars(FallbackRetry \/ FallbackTry \/ FallbackExhausted)

----------------------------------------------------------------------------
(* Properties of the alert scanner *)

\* the step of scan_alerts that evaluates the symbol sym on klines
EvalStep == scan_pc = "eval" /\ scan_pc' # "eval"

\* the step appends exactly one event, for sym, with this prefix
Emits(prefix) ==
    /\ Len(alerts') = Len(alerts) + 1
    /\ SubSeq(alerts', 1, Len(alerts)) = alerts
    /\ alerts'[Len(alerts')].prefix = prefix
    /\ alerts'[Len(alerts')].sym = sym
    /\ alerts'[Len(alerts')].time = utc_now

EmitsNothing == alerts' = alerts

\* C1: once a spike has been recorded for symbol S and candle hour H, no
\* later evaluation of S on a current candle of hour H appends another
\* un-prefixed spike event for S.
C1_SpikeOncePerHour ==
    [][EvalStep /\ Emits("") =>
         ~\E r \in spiked : r.sym = sym /\ r.hour = Hour(klines[2].open)]_vars

\* a symbol with a recorded spike was evaluated again on spike-grade volumes
\* and only a follow-up was appended
C1_Witness ==
    \E i \in DOMAIN alerts : \E r \in spiked :
        /\ alerts[i].sym = r.sym
        /\ alerts[i].prefix # ""
        /\ alerts[i].time > r.at
        /\ alerts[i].ratio >= VOLUME_MULTIPLE * 100
        /\ alerts[i].vol_str = <<300, "M">>

\* C2: an evaluation emits an un-prefixed spike event iff
\* curr.volume / prev.volume >= VOLUME_MULTIPLE (the ratio being 0 when
\* prev.volume = 0), curr.volume >= MIN_QUOTE_VOL and last_alert[S] is not
\* curr's hour; it then sets last_alert[S] to curr's hour and
\* initial_alert_minute[S] to the scan's minute, and otherwise leaves both
\* maps unchanged.
C2_SpikeRule ==
    [][EvalStep =>
         LET prev == klines[1]
             curr == klines[2]
             cond == /\ prev.vol > 0
                     /\ curr.vol >= VOLUME_MULTIPLE * prev.vol
                     /\ curr.vol >= MIN_QUOTE_VOL
                     /\ last_alert[sym] # curr.open \div 60
         IN  /\ Emits("") <=> cond
             /\ cond => /\ last_alert' = [last_alert EXCEPT ![sym] = curr.open \div 60]
                         /\ initial_alert_minute' =
                                [initial_alert_minute EXCEPT ![sym] = utc_now % 60]
             /\ ~cond => UNCHANGED <<last_alert, initial_alert_minute>>]_vars

\* a second spike of the same symbol has overwritten the record of the first
C2_Witness ==
    \E r1, r2 \in spiked :
        /\ r1.sym = r2.sym
        /\ r1.hour < r2.hour
        /\ last_alert[r2.sym] = r2.hour
        /\ initial_alert_minute[r2.sym] = Minute(r2.at)
        /\ Minute(r1.at) # Minute(r2.at)

\* C3: an evaluation emits an "UPDATE: " event iff the scan runs at minute
\* 0, S is already alerted for curr's hour and initial_alert_minute[S] # 55.
C3_FullUpdateRule ==
    [][EvalStep =>
         (Emits("UPDATE: ") <=>
             /\ utc_now % 60 = 0
             /\ last_alert[sym] = klines[2].open \div 60
             /\ initial_alert_minute[sym] # 55)]_vars

\* an UPDATE event is in the log, appended by the top-of-hour scan that
\* follows the hour of the spike
C3_Witness ==
    \E i \in DOMAIN alerts : \E r \in spiked :
        /\ alerts[i].prefix = "UPDATE: "
        /\ alerts[i].sym = r.sym
        /\ Minute(alerts[i].time) = 0
        /\ Hour(alerts[i].time) = r.hour + 1
        /\ Minute(r.at) # 55

\* C4: an evaluation emits a "HALF-UPDATE: " event iff the scan runs at
\* minute 30, S is already alerted for curr's hour and
\* initial_alert_minute[S] <= 20.
C4_HalfUpdateRule ==
    [][EvalStep =>
         (Emits("HALF-UPDATE: ") <=>
             /\ utc_now % 60 = 30
             /\ last_alert[sym] = klines[2].open \div 60
             /\ initial_alert_minute[sym] <= 20)]_vars

\* a HALF-UPDATE event is in the log for a spike of minute 20
C4_Witness ==
    \E i \in DOMAIN alerts : \E r \in spiked :
        /\ alerts[i].prefix = "HALF-UPDATE: "
        /\ alerts[i].sym = r.sym
        /\ Minute(r.at) = 20
        /\ Hour(r.at) = Hour(alerts[i].time)

\* C5: after a top-of-hour scan (minute 0) has recorded the spike of S, and
\* with no newer spike of S, the evaluation of S by the scan at minute 30 of
\* that wall-clock hour emits a HALF-UPDATE event and the one by the scan at
\* the next top-of-hour emits an UPDATE event.
C5_FollowUpsOfTopOfHourSpike ==
    [][(EvalStep /\ last_alert' = last_alert) =>
         \A r \in spiked :
             ( /\ r.sym = sym
               /\ r.at % 60 = 0
               /\ last_alert[sym] = r.hour
               /\ initial_alert_minute[sym] = 0 ) =>
                 /\ (utc_now = r.at + 30) => Emits("HALF-UPDATE: ")
                 /\ (utc_now = r.at + 60) => Emits("UPDATE: ")]_vars

\* C6: the rolling log never holds more than 30 events, in any state and
\* in any response a concurrent /api/alerts reader builds.
C6_LogWithinCap ==
    /\ Len(alerts) <= ALERT_CAP
    /\ Len(response) <= ALERT_CAP

\* C7: whenever scan_alerts is not between an append and its truncation,
\* after m appends the log is the last min(m, 30) appended events in the
\* order of their insertion.
C7_LastThirtyInOrder ==
    scan_pc # "trunc" =>
        /\ Len(alerts) = (IF appended <= 30 THEN appended ELSE 30)
        /\ \A i \in DOMAIN alerts : alerts[i].time = appended - Len(alerts) + i

\* 35 appends have left events 6 through 35
C7_Witness ==
    /\ scan_pc = "loop"
    /\ appended = 35
    /\ Len(alerts) = 30
    /\ alerts[1].time = 6
    /\ alerts[30].time = 35

----------------------------------------------------------------------------
(* Properties of the DataManager cache *)

\* C8: at any moment at most one thread is inside the guarded section of
\* refresh_cache_background, and a thread that finds a refresh running
\* leaves without a request to the exchange.
C8_OneRefreshAtATime ==
    Cardinality({t \in CacheThreads : InGuardedSection(t)}) <= 1

\* C9: a step of a fetch_data call that found its slot populated and does not
\* get through its try block changes neither that slot nor last_update, and
\* the call ends by handing its caller a list (the empty list or the cached
\* entries), never an exception.
\* (A safety statement: the except handler waits for cache_lock like any
\* other taker of that lock.)
C9_FailedFetchKeepsSlot ==
    [][\A t \in CacheThreads :
          (InFetchData(t) /\ th[t].full /\ th[t].outcome # "ok" /\ th'[t] # th[t])
          => /\ IF th[t].pro THEN cached_pro_data' = cached_pro_data
                              ELSE cached_data' = cached_data
             /\ last_update' = last_update
             /\ (th'[t].outcome \in {"fail", "exc"} /\ th'[t].pc = "idle")
                  => th'[t].ret \in {<<>>, Slot(th[t].pro)}]_vars

\* a watchlist request hit an exception in fetch_data while the slot was
\* populated, and got the cached entries back
C9_Witness ==
    /\ th["req"].pc = "idle"
    /\ th["req"].full
    /\ th["req"].outcome = "exc"
    /\ th["req"].ret # <<>>
    /\ th["req"].ret = Slot(th["req"].pro)
    /\ last_update # NoUpdate

\* C10: a get_cached_data call on an empty slot whose exchange fetches
\* succeed terminates with the fresh entries stored and returned; so it never
\* waits at the cache update of fetch_data for a lock that it holds itself.
C10_ColdStartFetchReturns ==
    \A t \in CacheThreads :
        ~(th[t].frame = "gcd" /\ th[t].pc = "f_swap" /\ th[t].outcome = "ok"
          /\ cache_lock = t)

\* C11: no thread holds cache_lock while it performs a request to the
\* exchange (the symbol list at line 416, the ticker and funding requests of
\* the try block); the lock is held only to read or replace a slot.
C11_NoLockAcrossNetwork ==
    \A t \in CacheThreads :
        cache_lock = t => th[t].pc \notin {"f_syms_net", "f_try"}

\* C12: a get_cached_data call on a populated slot returns that slot's
\* entries and the stored last_update, starts no fetch and changes no cache
\* state, whatever the other threads are doing.  (What the call does when it
\* runs; it waits for cache_lock like any other taker of that lock.)
C12_CachedReadIsPure ==
    [][\A p \in BOOLEAN :
          (Slot(p) # <<>> /\ GetCachedData("req", p))
          => /\ th'["req"].pc = "idle"
             /\ th'["req"].ret = Slot(p)
             /\ th'["req"].ret_time = last_update
             /\ UNCHANGED <<cached_data, cached_pro_data, last_update,
                            cache_lock, is_fetching, fetches, active_syms>>]_vars

\* a cached read has returned the slot and its timestamp while a refresh is
\* between its exchange requests
C12_Witness ==
    /\ th["req"].pc = "idle"
    /\ th["req"].ret # <<>>
    /\ th["req"].ret_time # NoUpdate
    /\ th["req"].ret_time = last_update
    /\ \E t \in CacheThreads : InGuardedSection(t) /\ th[t].pc = "f_try"

\* C13: the timestamp that get_cached_data returns with a populated slot's
\* entries is the time at which those entries were swapped into that slot.
C13_TimestampOfTheSlot ==
    \A p \in BOOLEAN : Slot(p) # <<>> => last_update = swap_time[p]

----------------------------------------------------------------------------
(* Properties of the snapshot that fetch_data builds *)

SortedDescending(entries) ==
    \A i \in 1..(Len(entries) - 1) : entries[i].volume >= entries[i + 1].volume

\* entries of equal volume stand in the order of the ticker answer
TiesInTickerOrder(entries, volume_data) ==
    \A i, j \in DOMAIN entries :
        (i < j /\ entries[i].volume = entries[j].volume)
        => \E a, b \in DOMAIN volume_data :
              /\ a < b
              /\ volume_data[a][1] = entries[i].symbol
              /\ volume_data[b][1] = entries[j].symbol

\* C14: each cache slot, and each list about to be stored, is sorted by
\* volume descending, entries of equal volume in the order of the ticker
\* answer.
C14_SlotsSortedDescending ==
    /\ \A p \in BOOLEAN : SortedDescending(Slot(p))
    /\ \A t \in CacheThreads :
          th[t].pc = "f_swap"
          => /\ SortedDescending(th[t].data)
             /\ TiesInTickerOrder(th[t].data, th[t].volume_data)

\* a stored list of two entries of different volumes, and a list of two
\* entries of equal volume about to be stored, BUSDT first as in the answer
C14_Witness ==
    /\ th["req"].pc = "f_swap"
    /\ Len(th["req"].data) = 2
    /\ th["req"].data[1].volume = th["req"].data[2].volume
    /\ th["req"].data[1].symbol = "BUSDT"
    /\ \E p \in BOOLEAN :
          /\ Len(Slot(p)) = 2
          /\ Slot(p)[1].volume > Slot(p)[2].volume

AboveFloor(entries) ==
    \A i \in DOMAIN entries : entries[i].volume > VOLUME_FLOOR

\* C15: every entry of either cache slot, and of each list about to be
\* stored, has a quote volume strictly above the floor.
C15_EntriesAboveFloor ==
    /\ \A p \in BOOLEAN : AboveFloor(Slot(p))
    /\ \A t \in CacheThreads : th[t].pc = "f_swap" => AboveFloor(th[t].data)

\* the ticker listed two active symbols, one exactly at the floor and one
\* just above it, and only the second is about to be stored
C15_Witness ==
    /\ th["req"].pc = "f_swap"
    /\ active_syms = Symbols
    /\ th["req"].volume_data =
          << <<"AUSDT", VOLUME_FLOOR>>, <<"BUSDT", VOLUME_FLOOR + 1>> >>
    /\ Len(th["req"].data) = 1
    /\ th["req"].data[1].symbol = "BUSDT"

----------------------------------------------------------------------------
(* Properties of fetch_with_fallback *)

\* C16: the mirrors are requested in list order, each at most once; the call
\* returns the response of the first mirror that answers 200 and requests no
\* mirror after it; every other answer moves on to the next mirror; the call
\* returns None exactly when no mirror answered 200.
C16_FirstMirrorAnswering200 ==
    /\ \A k \in DOMAIN fb_log : fb_log[k].mirror = k
    /\ Len(fb_log) <= fb_urls
    /\ \A k \in DOMAIN fb_log :
          fb_log[k].answer = "200"
          => k = Len(fb_log) /\ fb_pc = "done" /\ fb_return = k
    /\ fb_pc = "done"
       => /\ fb_return = NoResponse
             <=> /\ Len(fb_log) = fb_urls
                 /\ \A k \in DOMAIN fb_log : fb_log[k].answer # "200"
          /\ fb_return # NoResponse
             => fb_return = Len(fb_log) /\ fb_log[fb_return].answer = "200"

\* three mirrors, the first geo-blocked, the second answering 200: the call
\* returned the second mirror's response and never asked the third
C16_Witness ==
    /\ fb_pc = "done"
    /\ fb_urls = 3
    /\ fb_log = <<[mirror |-> 1, answer |-> "451"],
                  [mirror |-> 2, answer |-> "200"]>>
    /\ fb_return = 2

----------------------------------------------------------------------------
(* Error handling of the alert scanner *)

\* C17: when the kline fetch for a symbol raises or yields fewer than two
\* usable candles, last_alert, initial_alert_minute and the log stay as they
\* are and the for-loop goes on with the symbols not yet visited.
C17_FailedKlineFetchSkipsSymbol ==
    [][(scan_pc = "loop" /\ todo' # todo /\ Len(klines') < 2)
       => /\ UNCHANGED <<last_alert, initial_alert_minute, alerts>>
          /\ scan_pc' = "loop"
          /\ todo' = todo \ {sym'}]_vars

\* a symbol was skipped in this cycle and an event was then appended for
\* the other one
C17_Witness ==
    /\ scan_pc = "trunc"
    /\ skipped # {}
    /\ sym \notin skipped

\* C18: an exception that leaves scan_alerts or refresh_cache_background is
\* caught in the loop that called it, and the loop starts a further
\* iteration (as long as the bounds of the model leave room for one).
C18_LoopsSurviveExceptions ==
    /\ (scan_pc = "except" /\ scans < MaxScans /\ \E t \in LoopGrid : t > now)
          ~> (scan_pc = "loop")
    /\ (th["loop"].pc = "l_except" /\ fetches < MaxPasses)
          ~> (th["loop"].pc = "r_set")

\* the second cycle of the scanner has begun after the first one ended in an
\* exception on symbol sym (a cycle that ends normally resets sym)
C18_Witness ==
    /\ scans = 2
    /\ scan_pc = "loop"
    /\ sym # NoSym
    /\ todo = active_syms
    /\ todo # {}
    /\ skipped = {}

----------------------------------------------------------------------------
(* The active symbol set *)

\* C19: once the symbol set has been fetched, every later fetch_data call
\* builds its snapshot from the symbols that are trading on the exchange when
\* the call is made: a newly listed symbol above the floor is among the
\* entries about to be stored, a delisted one is not.
C19_SnapshotFollowsExchange ==
    \A t \in CacheThreads :
        (th[t].pc = "f_swap" /\ th[t].outcome = "ok" /\ active_syms # {})
        => th[t].data = Process(th[t].volume_data, trading, th[t].pro)

----------------------------------------------------------------------------
(* Cold start *)

\* C20: get_cached_data fetches synchronously only for a slot that no
\* fetch_data call has stored anything into yet.
C20_SynchronousFetchOnlyOnColdStart ==
    \A t \in CacheThreads :
        th[t].frame = "gcd" => swap_time[th[t].pro] = NoUpdate

----------------------------------------------------------------------------
(* Properties of the /api/alerts reader *)

\* C21: get_alerts with tier limit L takes the most recent min(L, len(log))
\* events of the rolling log in insertion order, newest last; with no limit
\* it follows the whole log; what it returns is what it took; and no step of
\* get_alerts modifies the log.
C21_GetAlertsReturnsMostRecent ==
    [][/\ (reader_pc = "limit" /\ reader_pc' = "render"
              /\ alert_limit # NoLimit) =>
            /\ Len(alerts_to_show') =
                  (IF Len(alerts) <= alert_limit THEN Len(alerts)
                                                 ELSE alert_limit)
            /\ \A i \in DOMAIN alerts_to_show' :
                  alerts_to_show'[i] =
                      alerts[Len(alerts) - Len(alerts_to_show') + i]
       /\ (reader_pc = "limit" /\ reader_pc' = "render"
              /\ alert_limit = NoLimit /\ aliased) =>
            alerts_to_show' = alerts
       /\ (reader_pc = "render" /\ reader_pc' = "idle") =>
            response' = alerts_to_show
       /\ (reader_pc' # reader_pc) => alerts' = alerts]_vars

\* a Free-tier reader got the last 10 of 12 events
C21_Witness ==
    /\ reader_pc = "idle"
    /\ alert_limit = FREE_ALERT_LIMIT
    /\ Len(alerts) = 12
    /\ Len(response) = 10
    /\ response[1].time = 3
    /\ response[10].time = 12

----------------------------------------------------------------------------
(* Properties of one scan cycle *)

\* C22: an exception raised while one symbol is processed, also after its
\* klines were fetched, is caught for that symbol only: the for-loop of
\* scan_alerts is left only when no active symbol remains to be evaluated.
C22_SymbolErrorCaughtPerSymbol ==
    [][(scan_pc \in {"loop", "eval", "trunc"}
          /\ scan_pc' \notin {"loop", "eval", "trunc"}) => todo = {}]_vars

\* C23: in a top-of-hour scan the kline step for a symbol either skips it
\* (no event, no change of the alert state, the loop goes on) or hands on two
\* consecutive hourly candles that both closed strictly before the fetch,
\* curr being the latest candle closed by then: the candle in progress at the
\* fetch is never curr.
C23_TopOfHourUsesClosedCandles ==
    [][(scan_pc = "loop" /\ todo' # todo /\ Minute(utc_now) = 0) =>
          IF Len(klines') = 2
          THEN /\ scan_pc' = "eval"
               /\ klines'[2].close < now'
               /\ klines'[2].close + 60 >= now'
               /\ klines'[2].open # Hour(now') * 60
               /\ klines'[1].open + 60 = klines'[2].open
          ELSE /\ klines' = <<>>
               /\ scan_pc' = "loop"
               /\ UNCHANGED <<last_alert, initial_alert_minute, alerts>>]_vars

\* a top-of-hour scan whose kline request was answered at a later minute of
\* the hour is about to compare the two candles closed before that hour
C23_Witness ==
    /\ scan_pc = "eval"
    /\ Minute(utc_now) = 0
    /\ now > utc_now
    /\ klines[2].open = (Hour(now) - 1) * 60
    /\ klines[1].open = (Hour(now) - 2) * 60

----------------------------------------------------------------------------
(* Scans in the last minutes of an hour and at the top of the next one *)

\* the scanner drifts off the 5-minute marks (each cycle lasts 60 s plus the
\* time of its requests), so a spike can be recorded at any minute
LateGrid == {55, 56, 59, 60}

NextLate ==
    \/ FetchActiveSymbols
    \/ ScanStart(LateGrid)
    \/ KlineFetch(LateGrid, KlineVolumes)
    \/ ScanEval
    \/ ScanTruncate
    \/ ScanEnd

SpecLate == Init /\ [][NextLate]_vars

\* C24: when the stored initial_alert_minute of a symbol is in 55..59, the
\* top-of-hour evaluation of that symbol emits no UPDATE event.
C24_NoUpdateAfterLateSpike ==
    [][(EvalStep /\ Minute(utc_now) = 0
          /\ initial_alert_minute[sym] \in 55..59) => ~Emits("UPDATE: ")]_vars

----------------------------------------------------------------------------
(* Retries inside one fetch_with_fallback call *)

RECURSIVE SumSeq(_)
\* the sum of a sequence of numbers
SumSeq(s) == IF s = <<>> THEN 0 ELSE s[1] + SumSeq(Tail(s))

\* C25: within one fetch_with_fallback call each mirror is sent at most 3
\* requests (one attempt and at most 2 retries); a further request to the
\* same mirror follows only an answer 429/500/502/503/504 or a
\* connection-level error, never 451; a call over k mirrors sends at most 3k
\* requests; and every call ends.
C25_BoundedRetries ==
    /\ [](\A k \in DOMAIN fb_sent : fb_sent[k] <= 1 + RETRY_TOTAL)
    /\ [](Len(fb_sent) <= fb_urls /\ SumSeq(fb_sent) <= (1 + RETRY_TOTAL) * fb_urls)
    /\ [][(fb_sent' # fb_sent /\ Len(fb_sent') = Len(fb_sent)
             /\ fb_sent # <<>>)
          => fb_last \in {"500", "timeout", "error"}]_vars
    /\ (fb_pc = "loop") ~> (fb_pc = "done")

\* the first mirror answered 500 to the attempt and to both retries, the
\* second answered 200 to its first retry: five requests, mirror 2 returned
C25_Witness ==
    /\ fb_pc = "done"
    /\ fb_urls = 2
    /\ fb_sent = <<3, 2>>
    /\ fb_log = <<[mirror |-> 1, answer |-> "500"],
                  [mirror |-> 2, answer |-> "200"]>>
    /\ fb_return = 2

----------------------------------------------------------------------------
(* scan_alerts, lines 732-797: the e-mail dispatch that follows an append  *)

\* what the dispatch block leaves alone
not_mail == <<now, active_syms, alerts, last_alert, initial_alert_minute,
              scans, utc_now, todo, sym, klines, spiked, skipped, appended,
              reader_vars, cache_vars, fallback_vars>>

\* line 730, followed by the try of line 733
ScanTruncateMail == Truncate("mail")

\* lines 734-741: the imports and the query; either may raise
MailLookup ==
    /\ scan_pc = "mail"
    /\ \E raised \in BOOLEAN :
          IF raised
          THEN scan_pc' = "mail_except" /\ UNCHANGED users_with_alerts
          ELSE scan_pc' = "users" /\ users_with_alerts' = Users
    /\ UNCHANGED <<user, alert_data, senders, sent>>
    /\ UNCHANGED not_mail

\* lines 743-745: the for statement binds user; a user whose tier has no
\* email_alerts feature is passed over
MailUser ==
    /\ scan_pc = "users"
    /\ users_with_alerts # <<>>
    /\ user' = Head(users_with_alerts)
    /\ users_with_alerts' = Tail(users_with_alerts)
    /\ scan_pc' = IF HasEmailAlerts(user') THEN "data" ELSE "users"
    /\ UNCHANGED <<alert_data, senders, sent>>
    /\ UNCHANGED not_mail

\* lines 747-794: price and funding rate are fetched (their failures are
\* caught and give 0), alert_data is bound to the data of the event just
\* appended, and a thread is started on a closure over user and alert_data;
\* Thread.start() may raise
MailStart ==
    /\ scan_pc = "data"
    /\ alert_data' = alerts[Len(alerts)]
    /\ \E raised \in BOOLEAN :
          IF raised
          THEN scan_pc' = "mail_except" /\ UNCHANGED senders
          ELSE /\ scan_pc' = "users"
               /\ senders' = senders \cup
                      {[for_user |-> user, for_event |-> alert_data']}
    /\ UNCHANGED <<users_with_alerts, user, sent>>
    /\ UNCHANGED not_mail

\* the for-loop over the users is exhausted: on to the next symbol
MailDone ==
    /\ scan_pc = "users"
    /\ users_with_alerts = <<>>
    /\ scan_pc' = "loop"
    /\ UNCHANGED mail_vars
    /\ UNCHANGED not_mail

\* a slip: the failure leaves scan_alerts
AfterMailError_Propagates == "except"

\* lines 796-797: the except clause logs, and the for-loop over the symbols
\* goes on
AfterMailError == "loop"

MailCaught ==
    /\ scan_pc = "mail_except"
    /\ scan_pc' = AfterMailError
    /\ UNCHANGED mail_vars
    /\ UNCHANGED not_mail

\* lines 785-787, in a sender thread: send_alert_email(user, alert_data, mail)
\* reads both names when the thread gets to run
SenderRun ==
    \E t \in senders :
        /\ senders' = senders \ {t}
        /\ sent' = [to |-> user, data |-> alert_data, thread |-> t]
        /\ UNCHANGED <<users_with_alerts, user, alert_data>>
        /\ UNCHANGED scan_pc
        /\ UNCHANGED not_mail

\* candle volumes for the dispatch: a spike, and none
MailVolumes == { <<1000000, 3000000, 9000000>>, <<1000000, 1000000, 1000000>> }

\* a cycle starts a minute after the last one ended: the sender threads of
\* the cycle before have run by then
NextMail ==
    \/ FetchActiveSymbols
    \/ senders = {} /\ ScanStart(LoopGrid)
    \/ KlineFetch(LoopGrid, MailVolumes)
    \/ ScanEval
    \/ ScanTruncateMail
    \/ MailLookup
    \/ MailUser
    \/ MailStart
    \/ MailDone
    \/ MailCaught
    \/ SenderRun
    \/ ScanEnd

SpecMail == Init /\ [][NextMail]_vars

\* C26: a failure of the recipient lookup or of the dispatch is caught inside
\* scan_alerts: from the append to the end of the dispatch block the log
\* keeps the event as its last entry, last_alert and initial_alert_minute
\* keep what was recorded, the symbols still to be evaluated stay the same;
\* after a failure no further sender thread is started for the event and
\* the for-loop goes on with the next symbol.
C26_DispatchFailureIsCaught ==
    [][/\ (scan_pc \in {"mail", "users", "data", "mail_except"}) =>
            /\ UNCHANGED <<alerts, last_alert, initial_alert_minute, todo>>
            /\ alerts[Len(alerts)].sym = sym
            /\ alerts[Len(alerts)].time = utc_now
            /\ scan_pc' \in {"mail", "users", "data", "mail_except", "loop"}
       /\ (scan_pc = "mail_except" /\ scan_pc' # scan_pc) =>
            /\ scan_pc' = "loop"
            /\ senders' \subseteq senders]_vars

\* the thread for the first user with the feature was started, the start of
\* the second one failed, and the other symbol is still to be evaluated
C26_Witness ==
    /\ scan_pc = "mail_except"
    /\ user = "elite"
    /\ \E t \in senders : t.for_user = "pro" /\ t.for_event.sym = sym
    /\ todo # {}

----------------------------------------------------------------------------
(* Progress of refresh_cache_background *)

\* a step of thread t inside refresh_cache_background or fetch_data
RefreshProgress(t) ==
    \/ RefreshSet(t)
    \/ FetchSyms(t)
    \/ FetchSymsNet(t)
    \/ FetchTry(t, TickerResponses)
    \/ FetchSwap(t)
    \/ FetchExcept(t)
    \/ RefreshFinally(t)

\* every thread that can take a step takes one: the requests carry timeouts
\* and a free lock is handed to a thread that waits for it
SpecCacheFair ==
    SpecCache /\ \A t \in CacheThreads : WF_vars(RefreshProgress(t))

\* C27: every thread that has set is_fetching = True in
\* refresh_cache_background eventually runs the finally block that resets
\* it, whatever the get_cached_data readers and the direct fetch_data
\* callers do meanwhile.
C27_RefreshResetsFlag ==
    \A t \in {"loop", "lazy"} : InGuardedSection(t) ~> ~InGuardedSection(t)

----------------------------------------------------------------------------
(* The scans that follow a recorded spike *)

\* the scanner sleeps after the cycle of 00:20, in which AUSDT was evaluated
\* on candle volumes 3,000,000 and 9,000,000 and its spike was recorded, and
\* BUSDT was evaluated a minute later without one
InitAlerted ==
    /\ now = 21
    /\ active_syms = Symbols
    /\ alerts = <<AlertEvent(20, "", "AUSDT", 3000000, 9000000)>>
    /\ last_alert = [s \in Symbols |-> IF s = "AUSDT" THEN 0 ELSE NoHour]
    /\ initial_alert_minute =
          [s \in Symbols |-> IF s = "AUSDT" THEN 20 ELSE NoMinute]
    /\ scan_pc = "sleep"
    /\ scans = 0
    /\ utc_now = 20
    /\ todo = {}
    /\ sym = NoSym
    /\ klines = <<>>
    /\ spiked = {[sym |-> "AUSDT", hour |-> 0, at |-> 20]}
    /\ skipped = {}
    /\ appended = 1
    /\ InitReader /\ InitCache /\ InitFallback /\ InitMail

NextFollow ==
    \/ ScanStart(TimeGrid)
    \/ KlineFetch(TimeGrid, KlineVolumes)
    \/ ScanEval
    \/ ScanTruncate
    \/ ScanEnd

SpecFollow == InitAlerted /\ [][NextFollow]_vars

\* the events of the log with this prefix for symbol s, appended in hour h
FollowUps(prefix, s, h) ==
    {i \in DOMAIN alerts : /\ alerts[i].prefix = prefix
                           /\ alerts[i].sym = s
                           /\ Hour(alerts[i].time) = h}

\* C28: for each recorded spike (S, H) the log receives at most one
\* HALF-UPDATE event (appended in hour H) and at most one UPDATE event
\* (appended in hour H + 1); every follow-up in the log belongs to a recorded
\* spike; and the evaluation that emits a follow-up leaves last_alert and
\* initial_alert_minute as they are.
C28_OneFollowUpOfEachKind ==
    /\ [](\A r \in spiked :
            /\ Cardinality(FollowUps("HALF-UPDATE: ", r.sym, r.hour)) <= 1
            /\ Cardinality(FollowUps("UPDATE: ", r.sym, r.hour + 1)) <= 1)
    /\ [](\A i \in DOMAIN alerts :
            /\ alerts[i].prefix = "HALF-UPDATE: " =>
                  \E r \in spiked : /\ r.sym = alerts[i].sym
                                    /\ r.hour = Hour(alerts[i].time)
            /\ alerts[i].prefix = "UPDATE: " =>
                  \E r \in spiked : /\ r.sym = alerts[i].sym
                                    /\ r.hour + 1 = Hour(alerts[i].time))
    /\ [][(EvalStep /\ (Emits("HALF-UPDATE: ") \/ Emits("UPDATE: ")))
          => UNCHANGED <<last_alert, initial_alert_minute>>]_vars

\* the spike of 00:20 got its HALF-UPDATE at 00:30 and its UPDATE at 01:00,
\* and the alert state is still the one the spike recorded
C28_Witness ==
    /\ FollowUps("HALF-UPDATE: ", "AUSDT", 0) # {}
    /\ FollowUps("UPDATE: ", "AUSDT", 1) # {}
    /\ last_alert["AUSDT"] = 0
    /\ initial_alert_minute["AUSDT"] = 20

\* C29: every send_alert_email call made by a sender thread goes to the user
\* the thread was started for and carries the alert_data of the event it was
\* started for, whenever the thread gets to run.
C29_SenderDeliversItsOwn ==
    sent # NoDelivery =>
        /\ sent.to = sent.thread.for_user
        /\ sent.data = sent.thread.for_event

\* the events of the log for symbol s appended by the cycle that read the
\* clock at t
EventsOf(s, t) ==
    {i \in DOMAIN alerts : alerts[i].sym = s /\ alerts[i].time = t}

\* C30: a scan cycle appends at most one event per symbol, and the cycle
\* that records the spike of a symbol appends no follow-up for it.
C30_OneEventPerSymbolAndCycle ==
    /\ \A i, j \in DOMAIN alerts :
          (alerts[i].sym = alerts[j].sym /\ alerts[i].time = alerts[j].time)
          => i = j
    /\ \A r \in spiked : \A i \in EventsOf(r.sym, r.at) : alerts[i].prefix = ""

\* a top-of-hour cycle recorded a spike (the symbol is then already alerted
\* for the hour of curr and its initial minute is not 55) and ended with the
\* spike event as its only event for the symbol
C30_Witness ==
    /\ scan_pc = "sleep"
    /\ \E r \in spiked :
          /\ r.at = utc_now
          /\ Minute(r.at) = 0
          /\ last_alert[r.sym] = r.hour
          /\ Cardinality(EventsOf(r.sym, r.at)) = 1

====
